---- MODULE Spec2Model ----
(***************************************************************************)
(* Model of briefcase's Android/Gradle run machinery                       *)
(* (src/briefcase/platforms/android/gradle.py):                            *)
(*   - GradleRunCommand.run_app, statement by statement, with every call   *)
(*     on the Android SDK / ADB wrapper able to return, to raise or to be  *)
(*     interrupted (KeyboardInterrupt);                                    *)
(*   - GradleRunCommand.forward_ports, the generator-based context manager *)
(*     that sets up and removes the port mappings;                         *)
(*   - android_log_clean_filter and ANDROID_LOG_PREFIX_REGEX, on strings   *)
(*     represented as sequences of code points.                            *)
(***************************************************************************)
EXTENDS Integers, Sequences, FiniteSets, TLC

\* ------------------------------------------------------------------ bounds
\* Most port mappings one run is asked for, forward and reverse together.
MaxPorts == 2
\* The host clock is followed up to this value.
MaxClock == 6
\* Every string over Alphabet up to this length is classified.
MaxLineLen == 5

\* ------------------------------------------------------- program constants
\* datetime.timedelta(seconds=5): the PID polling budget, in clock units.
PidTimeout == 5

\* ----------------------------------------------------------- value domains
Ports == {8080, 9000}
NoPid == 0
Pids == {4321}
DevTimes == {1, 2}
NoDevice == "none"
NoAvd == "none"
RunningDevice == "device-1"
BootedDevice == "emulator-5554"
ExistingAvd == "existingAvd"
CreatedAvd == "createdAvd"

\* The sequences over S of length n, and of length up to n.
RECURSIVE SeqsOfLen(_, _)
SeqsOfLen(S, n) ==
    IF n = 0 THEN {<<>>}
    ELSE {Append(s, x) : s \in SeqsOfLen(S, n - 1), x \in S}

SeqsUpTo(S, n) == UNION {SeqsOfLen(S, k) : k \in 0..n}

PortLists == SeqsUpTo(Ports, MaxPorts)

\* ---------------------------------------------------------------- state
VARIABLES
    pc,                 \* position in run_app
    shutdown_on_exit,   \* run_app parameter
    forward_ports,      \* run_app parameter (after `or []`)
    reverse_ports,      \* run_app parameter (after `or []`)
    device,             \* local `device`
    avd,                \* local `avd`
    adbBound,           \* whether the local `adb` has been assigned
    idx,                \* position of the current `for port in ...` loop
    device_start_time,  \* local `device_start_time`
    pid,                \* local `pid`
    fail_time,          \* local `fail_time`
    clock,              \* the host clock read by datetime.datetime.now()
    exc,                \* the exception run_app is propagating, or "none"
    active,             \* the port mappings currently set on the device
    log,                \* history: the calls made on the SDK / ADB wrapper
    line,               \* classifier: the raw log line
    stage,              \* classifier: "idle" | "input" | "classified" | "reclassified"
    content,            \* classifier: content returned for `line`
    include,            \* classifier: include flag returned for `line`
    content2,           \* classifier: content returned for `content`
    include2            \* classifier: include flag returned for `content`

runVars == <<pc, shutdown_on_exit, forward_ports, reverse_ports, device, avd,
             adbBound, idx, device_start_time, pid, fail_time, clock, exc,
             active, log>>
filterVars == <<line, stage, content, include, content2, include2>>
vars == <<runVars, filterVars>>

\* A call on a collaborator returns, raises, or is interrupted by the user.
CallOutcomes == {"ok", "error", "cancel"}

Entry(op, arg, name, res) == [op |-> op, arg |-> arg, name |-> name, res |-> res]

\* The statements of run_app that precede its `try:`.
BeforeTry == {"select", "create_emulator", "verify_avd", "start_emulator"}

\* Where an exception raised at position p goes.  run_app and forward_ports
\* hold no `except` clause and forward_ports no `try` at all: an exception
\* raised before the `try` leaves run_app at once; one raised inside it,
\* the `with` body and teardown included, goes straight to the `finally`
\* clause.  contextlib throws the body's exception into the generator at its
\* `yield`, where nothing catches it, so the removals after the `yield` are
\* skipped.
HandlerOf(p) == IF p \in BeforeTry THEN "done" ELSE "finally"

Raise(kind) ==
    /\ exc' = kind
    /\ pc' = HandlerOf(pc)

\* Position after the i-th step of the set-up loops of forward_ports.
AfterForward(i) ==
    IF i <= Len(forward_ports) THEN <<"forward", i>>
    ELSE IF Len(reverse_ports) >= 1 THEN <<"reverse", 1>>
    ELSE <<"datetime", 0>>

AfterReverse(i) ==
    IF i <= Len(reverse_ports) THEN <<"reverse", i>> ELSE <<"datetime", 0>>

\* A teardown that stops after the forward mappings.
ForwardRemovalsOnly(i) ==
    IF i <= Len(forward_ports) THEN <<"forward_remove", i>> ELSE <<"finally", 0>>

\* Position after the i-th step of the removal loops of forward_ports.
AfterForwardRemove(i) ==
    IF i <= Len(forward_ports) THEN <<"forward_remove", i>>
    ELSE IF Len(reverse_ports) >= 1 THEN <<"reverse_remove", 1>>
    ELSE <<"finally", 0>>

AfterReverseRemove(i) ==
    IF i <= Len(reverse_ports) THEN <<"reverse_remove", i>> ELSE <<"finally", 0>>

RunInit ==
    /\ pc = "select"
    /\ shutdown_on_exit \in BOOLEAN
    /\ forward_ports \in PortLists
    /\ reverse_ports \in PortLists
    /\ Len(forward_ports) + Len(reverse_ports) <= MaxPorts
    /\ device = NoDevice
    /\ avd = NoAvd
    /\ adbBound = FALSE
    /\ idx = 0
    /\ device_start_time = 0
    /\ pid = NoPid
    /\ fail_time = 0
    /\ clock = 0
    /\ exc = "none"
    /\ active = {}
    /\ log = <<>>

FilterIdle ==
    /\ line = <<>>
    /\ stage = "idle"
    /\ content = <<>>
    /\ include = FALSE
    /\ content2 = <<>>
    /\ include2 = FALSE

\* ------------------------------------------------- run_app: device selection
\* A selection that boots a named virtual device without the image check.
SelectTargetDeviceSkippingVerify ==
    /\ pc = "select"
    /\ \E r \in CallOutcomes :
         /\ log' = Append(log, Entry("select_target_device", 0, "", r))
         /\ IF r = "ok"
            THEN \E d \in {NoDevice, RunningDevice}, a \in {NoAvd, ExistingAvd} :
                   /\ device' = d
                   /\ avd' = a
                   /\ pc' = IF d # NoDevice THEN "adb"
                            ELSE IF a = NoAvd THEN "create_emulator"
                            ELSE "start_emulator"
                   /\ exc' = exc
            ELSE /\ Raise(r)
                 /\ UNCHANGED <<device, avd>>
    /\ UNCHANGED filterVars
    /\ UNCHANGED <<shutdown_on_exit, forward_ports, reverse_ports, adbBound, idx,
                   device_start_time, pid, fail_time, clock, active>>

\* device, name, avd = self.tools.android_sdk.select_target_device(device_or_avd)
SelectTargetDevice ==
    /\ pc = "select"
    /\ \E r \in CallOutcomes :
         /\ log' = Append(log, Entry("select_target_device", 0, "", r))
         /\ IF r = "ok"
            THEN \E d \in {NoDevice, RunningDevice}, a \in {NoAvd, ExistingAvd} :
                   /\ device' = d
                   /\ avd' = a
                   /\ pc' = IF d # NoDevice THEN "adb"
                            ELSE IF a = NoAvd THEN "create_emulator"
                            ELSE "verify_avd"
                   /\ exc' = exc
            ELSE /\ Raise(r)
                 /\ UNCHANGED <<device, avd>>
    /\ UNCHANGED filterVars
    /\ UNCHANGED <<shutdown_on_exit, forward_ports, reverse_ports, adbBound, idx,
                   device_start_time, pid, fail_time, clock, active>>

\* avd = self.tools.android_sdk.create_emulator()
CreateEmulator ==
    /\ pc = "create_emulator"
    /\ \E r \in CallOutcomes :
         /\ log' = Append(log, Entry("create_emulator", 0, "", r))
         /\ IF r = "ok"
            THEN /\ avd' = CreatedAvd
                 /\ pc' = "start_emulator"
                 /\ exc' = exc
            ELSE /\ Raise(r)
                 /\ avd' = avd
    /\ UNCHANGED filterVars
    /\ UNCHANGED <<shutdown_on_exit, forward_ports, reverse_ports, device, adbBound,
                   idx, device_start_time, pid, fail_time, clock, active>>

\* self.tools.android_sdk.verify_avd(avd)
VerifyAvd ==
    /\ pc = "verify_avd"
    /\ \E r \in CallOutcomes :
         /\ log' = Append(log, Entry("verify_avd", 0, avd, r))
         /\ IF r = "ok"
            THEN /\ pc' = "start_emulator"
                 /\ exc' = exc
            ELSE Raise(r)
    /\ UNCHANGED filterVars
    /\ UNCHANGED <<shutdown_on_exit, forward_ports, reverse_ports, device, avd,
                   adbBound, idx, device_start_time, pid, fail_time, clock, active>>

\* device, name = self.tools.android_sdk.start_emulator(avd, extra_emulator_args)
StartEmulator ==
    /\ pc = "start_emulator"
    /\ \E r \in CallOutcomes :
         /\ log' = Append(log, Entry("start_emulator", 0, avd, r))
         /\ IF r = "ok"
            THEN /\ device' = BootedDevice
                 /\ pc' = "adb"
                 /\ exc' = exc
            ELSE /\ Raise(r)
                 /\ device' = device
    /\ UNCHANGED filterVars
    /\ UNCHANGED <<shutdown_on_exit, forward_ports, reverse_ports, avd, adbBound,
                   idx, device_start_time, pid, fail_time, clock, active>>

\* ------------------------------------------- run_app: the body of the `try`
\* adb = self.tools.android_sdk.adb(device=device)
BindAdb ==
    /\ pc = "adb"
    /\ \E r \in CallOutcomes :
         /\ log' = Append(log, Entry("adb", 0, device, r))
         /\ IF r = "ok"
            THEN /\ adbBound' = TRUE
                 /\ pc' = "force_stop"
                 /\ exc' = exc
            ELSE /\ Raise(r)
                 /\ adbBound' = adbBound
    /\ UNCHANGED filterVars
    /\ UNCHANGED <<shutdown_on_exit, forward_ports, reverse_ports, device, avd,
                   idx, device_start_time, pid, fail_time, clock, active>>

\* adb.force_stop_app(package)
ForceStopApp ==
    /\ pc = "force_stop"
    /\ \E r \in CallOutcomes :
         /\ log' = Append(log, Entry("force_stop_app", 0, "", r))
         /\ IF r = "ok"
            THEN /\ pc' = "install"
                 /\ exc' = exc
            ELSE Raise(r)
    /\ UNCHANGED filterVars
    /\ UNCHANGED <<shutdown_on_exit, forward_ports, reverse_ports, device, avd,
                   adbBound, idx, device_start_time, pid, fail_time, clock, active>>

\* An install whose failure does not end the run.
InstallApkIgnoringFailure ==
    /\ pc = "install"
    /\ \E r \in CallOutcomes :
         /\ log' = Append(log, Entry("install_apk", 0, "", r))
         /\ pc' = AfterForward(1)[1]
         /\ idx' = AfterForward(1)[2]
         /\ exc' = exc
    /\ UNCHANGED filterVars
    /\ UNCHANGED <<shutdown_on_exit, forward_ports, reverse_ports, device, avd,
                   adbBound, device_start_time, pid, fail_time, clock, active>>

\* adb.install_apk(self.binary_path(app)); then the `with` statement enters
\* forward_ports, whose first loop starts.
InstallApk ==
    /\ pc = "install"
    /\ \E r \in CallOutcomes :
         /\ log' = Append(log, Entry("install_apk", 0, "", r))
         /\ IF r = "ok"
            THEN /\ pc' = AfterForward(1)[1]
                 /\ idx' = AfterForward(1)[2]
                 /\ exc' = exc
            ELSE /\ Raise(r)
                 /\ idx' = idx
    /\ UNCHANGED filterVars
    /\ UNCHANGED <<shutdown_on_exit, forward_ports, reverse_ports, device, avd,
                   adbBound, device_start_time, pid, fail_time, clock, active>>

\* forward_ports: for port in forward_ports: adb.forward(port, port)
Forward ==
    /\ pc = "forward"
    /\ \E r \in CallOutcomes :
         /\ log' = Append(log, Entry("forward", forward_ports[idx], "", r))
         /\ IF r = "ok"
            THEN /\ active' = active \cup {<<"forward", forward_ports[idx]>>}
                 /\ pc' = AfterForward(idx + 1)[1]
                 /\ idx' = AfterForward(idx + 1)[2]
                 /\ exc' = exc
            ELSE /\ Raise(r)
                 /\ UNCHANGED <<active, idx>>
    /\ UNCHANGED filterVars
    /\ UNCHANGED <<shutdown_on_exit, forward_ports, reverse_ports, device, avd,
                   adbBound, device_start_time, pid, fail_time, clock>>

\* forward_ports: for port in reverse_ports: adb.reverse(port, port)
Reverse ==
    /\ pc = "reverse"
    /\ \E r \in CallOutcomes :
         /\ log' = Append(log, Entry("reverse", reverse_ports[idx], "", r))
         /\ IF r = "ok"
            THEN /\ active' = active \cup {<<"reverse", reverse_ports[idx]>>}
                 /\ pc' = AfterReverse(idx + 1)[1]
                 /\ idx' = AfterReverse(idx + 1)[2]
                 /\ exc' = exc
            ELSE /\ Raise(r)
                 /\ UNCHANGED <<active, idx>>
    /\ UNCHANGED filterVars
    /\ UNCHANGED <<shutdown_on_exit, forward_ports, reverse_ports, device, avd,
                   adbBound, device_start_time, pid, fail_time, clock>>

\* device_start_time = adb.datetime()
Datetime ==
    /\ pc = "datetime"
    /\ \E r \in CallOutcomes :
         IF r = "ok"
         THEN \E t \in DevTimes :
                /\ log' = Append(log, Entry("datetime", t, "", r))
                /\ device_start_time' = t
                /\ pc' = "start_app"
                /\ exc' = exc
         ELSE /\ log' = Append(log, Entry("datetime", 0, "", r))
              /\ Raise(r)
              /\ device_start_time' = device_start_time
    /\ UNCHANGED filterVars
    /\ UNCHANGED <<shutdown_on_exit, forward_ports, reverse_ports, device, avd,
                   adbBound, idx, pid, fail_time, clock, active>>

\* adb.start_app(package, "org.beeware.android.MainActivity", passthrough)
StartApp ==
    /\ pc = "start_app"
    /\ \E r \in CallOutcomes :
         /\ log' = Append(log, Entry("start_app", 0, "", r))
         /\ IF r = "ok"
            THEN /\ pc' = "set_deadline"
                 /\ exc' = exc
            ELSE Raise(r)
    /\ UNCHANGED filterVars
    /\ UNCHANGED <<shutdown_on_exit, forward_ports, reverse_ports, device, avd,
                   adbBound, idx, device_start_time, pid, fail_time, clock, active>>

\* pid = None
\* fail_time = datetime.datetime.now() + datetime.timedelta(seconds=5)
SetDeadline ==
    /\ pc = "set_deadline"
    /\ pid' = NoPid
    /\ fail_time' = clock + PidTimeout
    /\ pc' = "loop_test"
    /\ UNCHANGED filterVars
    /\ UNCHANGED <<shutdown_on_exit, forward_ports, reverse_ports, device, avd,
                   adbBound, idx, device_start_time, clock, exc, active, log>>

\* if pid: ... else: ...  (the branch taken once the loop is left)
AfterPolling(p) == IF p # NoPid THEN "logcat" ELSE "logcat_tail"

\* while not pid and datetime.datetime.now() < fail_time:
LoopCondition == pid = NoPid /\ clock < fail_time

\* Nothing reads the host clock or fail_time once the loop is left: the
\* model stops following both there (they go back to 0).
LoopTest ==
    /\ pc = "loop_test"
    /\ IF LoopCondition
       THEN /\ pc' = "pidof"
            /\ UNCHANGED <<clock, fail_time>>
       ELSE /\ pc' = AfterPolling(pid)
            /\ clock' = 0
            /\ fail_time' = 0
    /\ UNCHANGED filterVars
    /\ UNCHANGED <<shutdown_on_exit, forward_ports, reverse_ports, device, avd,
                   adbBound, idx, device_start_time, pid, exc, active, log>>

\* The log keeps one entry for a run of polls with the same answer.
Polled(p, r) ==
    LET e == Entry("pidof", p, "", r)
    IN IF Len(log) > 0 /\ log[Len(log)] = e THEN log ELSE Append(log, e)

\* A poll that restarts the deadline when it finds no PID.
PidofRestartingDeadline ==
    /\ pc = "pidof"
    /\ \E r \in CallOutcomes :
         IF r = "ok"
         THEN \E p \in Pids \cup {NoPid} :
                /\ log' = Polled(p, r)
                /\ pid' = p
                /\ pc' = "loop_test"
                /\ exc' = exc
                /\ clock' = clock
                /\ fail_time' = IF p = NoPid /\ clock + PidTimeout <= MaxClock
                                THEN clock + PidTimeout ELSE fail_time
         ELSE /\ log' = Polled(NoPid, r)
              /\ Raise(r)
              /\ pid' = pid
              /\ clock' = 0
              /\ fail_time' = 0
    /\ UNCHANGED filterVars
    /\ UNCHANGED <<shutdown_on_exit, forward_ports, reverse_ports, device, avd,
                   adbBound, idx, device_start_time, active>>

\* pid = adb.pidof(package, quiet=2); if not pid: time.sleep(0.01)
Pidof ==
    /\ pc = "pidof"
    /\ \E r \in CallOutcomes :
         IF r = "ok"
         THEN \E p \in Pids \cup {NoPid} :
                /\ log' = Polled(p, r)
                /\ pid' = p
                /\ pc' = "loop_test"
                /\ exc' = exc
                /\ UNCHANGED <<clock, fail_time>>
         ELSE /\ log' = Polled(NoPid, r)
              /\ Raise(r)
              /\ pid' = pid
              /\ clock' = 0
              /\ fail_time' = 0
    /\ UNCHANGED filterVars
    /\ UNCHANGED <<shutdown_on_exit, forward_ports, reverse_ports, device, avd,
                   adbBound, idx, device_start_time, active>>

\* The host clock advances on its own, by any amount between two statements.
\* It is read only by the deadline and the loop condition, so it is followed
\* from the statement that fixes the deadline to the end of the loop; the
\* deadline is fixed while it can still be reached below MaxClock.
Tick ==
    /\ \/ pc = "set_deadline" /\ clock < MaxClock - PidTimeout
       \/ pc \in {"loop_test", "pidof"} /\ clock < MaxClock
    /\ clock' = clock + 1
    /\ UNCHANGED filterVars
    /\ UNCHANGED <<pc, shutdown_on_exit, forward_ports, reverse_ports, device, avd,
                   adbBound, idx, device_start_time, pid, fail_time, exc, active,
                   log>>

\* log_popen = adb.logcat(pid=pid)
Logcat ==
    /\ pc = "logcat"
    /\ \E r \in CallOutcomes :
         /\ log' = Append(log, Entry("logcat", pid, "", r))
         /\ IF r = "ok"
            THEN /\ pc' = "stream"
                 /\ exc' = exc
            ELSE Raise(r)
    /\ UNCHANGED filterVars
    /\ UNCHANGED <<shutdown_on_exit, forward_ports, reverse_ports, device, avd,
                   adbBound, idx, device_start_time, pid, fail_time, clock, active>>

\* self._stream_app_logs(app, popen=log_popen, clean_filter=..., stop_func=...)
\* The stream ends when the app's process is gone ("ok"); a user interrupt
\* terminates the log subprocess and ends the stream as well ("cancel"), and
\* the call returns; an error of the stream is raised.  On return the `with`
\* body is complete and forward_ports resumes after its `yield`.
StreamAppLogs ==
    /\ pc = "stream"
    /\ \E r \in CallOutcomes :
         /\ log' = Append(log, Entry("stream_app_logs", pid, "", r))
         /\ IF r \in {"ok", "cancel"}
            THEN /\ pc' = AfterForwardRemove(1)[1]
                 /\ idx' = AfterForwardRemove(1)[2]
                 /\ exc' = exc
            ELSE /\ Raise(r)
                 /\ idx' = idx
    /\ UNCHANGED filterVars
    /\ UNCHANGED <<shutdown_on_exit, forward_ports, reverse_ports, device, avd,
                   adbBound, device_start_time, pid, fail_time, clock, active>>

\* A fallback that reads the log without the launch timestamp.
LogcatTailWithoutSince ==
    /\ pc = "logcat_tail"
    /\ \E r \in CallOutcomes :
         /\ log' = Append(log, Entry("logcat_tail", 0, "", r))
         /\ Raise(IF r = "ok" THEN "problem" ELSE r)
    /\ UNCHANGED filterVars
    /\ UNCHANGED <<shutdown_on_exit, forward_ports, reverse_ports, device, avd,
                   adbBound, idx, device_start_time, pid, fail_time, clock, active>>

\* adb.logcat_tail(since=device_start_time)
\* raise BriefcaseCommandError(f"Problem starting app {app.app_name!r}")
LogcatTail ==
    /\ pc = "logcat_tail"
    /\ \E r \in CallOutcomes :
         /\ log' = Append(log, Entry("logcat_tail", device_start_time, "", r))
         /\ Raise(IF r = "ok" THEN "problem" ELSE r)
    /\ UNCHANGED filterVars
    /\ UNCHANGED <<shutdown_on_exit, forward_ports, reverse_ports, device, avd,
                   adbBound, idx, device_start_time, pid, fail_time, clock, active>>

\* forward_ports: for port in forward_ports: adb.forward_remove(port)
ForwardRemove ==
    /\ pc = "forward_remove"
    /\ \E r \in CallOutcomes :
         /\ log' = Append(log, Entry("forward_remove", forward_ports[idx], "", r))
         /\ IF r = "ok"
            THEN /\ active' = active \ {<<"forward", forward_ports[idx]>>}
                 /\ pc' = AfterForwardRemove(idx + 1)[1]
                 /\ idx' = AfterForwardRemove(idx + 1)[2]
                 /\ exc' = exc
            ELSE /\ Raise(r)
                 /\ UNCHANGED <<active, idx>>
    /\ UNCHANGED filterVars
    /\ UNCHANGED <<shutdown_on_exit, forward_ports, reverse_ports, device, avd,
                   adbBound, device_start_time, pid, fail_time, clock>>

\* forward_ports: for port in reverse_ports: adb.reverse_remove(port)
ReverseRemove ==
    /\ pc = "reverse_remove"
    /\ \E r \in CallOutcomes :
         /\ log' = Append(log, Entry("reverse_remove", reverse_ports[idx], "", r))
         /\ IF r = "ok"
            THEN /\ active' = active \ {<<"reverse", reverse_ports[idx]>>}
                 /\ pc' = AfterReverseRemove(idx + 1)[1]
                 /\ idx' = AfterReverseRemove(idx + 1)[2]
                 /\ exc' = exc
            ELSE /\ Raise(r)
                 /\ UNCHANGED <<active, idx>>
    /\ UNCHANGED filterVars
    /\ UNCHANGED <<shutdown_on_exit, forward_ports, reverse_ports, device, avd,
                   adbBound, device_start_time, pid, fail_time, clock>>

\* finally: if shutdown_on_exit: ... adb.kill()
\* Reading `adb` before it was assigned raises UnboundLocalError, which
\* replaces the exception being propagated.
Finally ==
    /\ pc = "finally"
    /\ IF ~shutdown_on_exit THEN pc' = "done" /\ exc' = exc
       ELSE IF adbBound THEN pc' = "kill" /\ exc' = exc
       ELSE pc' = "done" /\ exc' = "unbound"
    /\ UNCHANGED filterVars
    /\ UNCHANGED <<shutdown_on_exit, forward_ports, reverse_ports, device, avd,
                   adbBound, idx, device_start_time, pid, fail_time, clock, active,
                   log>>

\* adb.kill(); then the propagating exception, if any, is re-raised.
Kill ==
    /\ pc = "kill"
    /\ \E r \in CallOutcomes :
         /\ log' = Append(log, Entry("kill", 0, "", r))
         /\ exc' = IF r = "ok" THEN exc ELSE r
    /\ pc' = "done"
    /\ UNCHANGED filterVars
    /\ UNCHANGED <<shutdown_on_exit, forward_ports, reverse_ports, device, avd,
                   adbBound, idx, device_start_time, pid, fail_time, clock, active>>

RunStep ==
    \/ SelectTargetDevice
    \/ CreateEmulator
    \/ VerifyAvd
    \/ StartEmulator
    \/ BindAdb
    \/ ForceStopApp
    \/ InstallApk
    \/ Forward
    \/ Reverse
    \/ Datetime
    \/ StartApp
    \/ SetDeadline
    \/ LoopTest
    \/ Pidof
    \/ Logcat
    \/ StreamAppLogs
    \/ LogcatTail
    \/ ForwardRemove
    \/ ReverseRemove
    \/ Finally
    \/ Kill

Init == RunInit /\ FilterIdle

Next == RunStep \/ Tick

Spec == Init /\ [][Next]_vars

\* Every call made by run_app returns or raises, and the host clock advances.
\* The polling loop reads neither port list: its liveness is checked on the
\* runs with at most one port in each direction.
FairInit == Init /\ Len(forward_ports) <= 1 /\ Len(reverse_ports) <= 1

FairSpec == FairInit /\ [][Next]_vars /\ WF_vars(RunStep) /\ WF_vars(Tick)

\* ------------------------------------------------------ reading the history
LogIdx == 1..Len(log)

Called(op) == \E i \in LogIdx : log[i].op = op

\* log[i] records a mapping that was established.
Established(i) == log[i].op \in {"forward", "reverse"} /\ log[i].res = "ok"

RemoveOps == {"forward_remove", "reverse_remove"}

RemoveOpOf(op) == IF op = "forward" THEN "forward_remove" ELSE "reverse_remove"

\* The removal matching the mapping of log[i] was called after position k.
RemovalCalledAfter(i, k) ==
    \E j \in LogIdx :
        /\ j > i
        /\ j > k
        /\ log[j].op = RemoveOpOf(log[i].op)
        /\ log[j].arg = log[i].arg

\* The calls made inside the `with self.forward_ports(...)` body.
BodyOps == {"datetime", "start_app", "pidof", "logcat", "stream_app_logs",
            "logcat_tail"}

\* --------------------------------------------------------------- claims
\* C1: no port mapping outlives its launch session: however run_app ends,
\* every mapping that adb.forward / adb.reverse established has had the
\* matching adb.forward_remove / adb.reverse_remove called by then.
C1_NoMappingOutlivesSession ==
    pc = "done" => \A i \in LogIdx : Established(i) => RemovalCalledAfter(i, 0)

\* C2: port teardown is best-effort per mapping: when the removal of one
\* mapping fails, removal is still attempted for every other established
\* mapping, forward and reverse alike.
C2_TeardownBestEffort ==
    (/\ pc = "done"
     /\ \E k \in LogIdx : log[k].op \in RemoveOps /\ log[k].res = "error")
    => \A i \in LogIdx : Established(i) => RemovalCalledAfter(i, 0)

\* C3: with shutdown_on_exit, adb.kill is called exactly once and is the last
\* device action of the run, for every outcome; without it, adb.kill is never
\* called.
C3_ShutdownExactlyOnceLast ==
    pc = "done" =>
        IF shutdown_on_exit
        THEN /\ Len(log) > 0
             /\ log[Len(log)].op = "kill"
             /\ Cardinality({i \in LogIdx : log[i].op = "kill"}) = 1
        ELSE ~Called("kill")

\* C4: when the run is cancelled after the port mappings were established,
\* every mapping is removed after the interrupted step (and so after the log
\* stream ended), and with shutdown_on_exit adb.kill comes last, after the
\* removals.
C4_CancelCleanupOrder ==
    \A c \in LogIdx :
        (pc = "done" /\ log[c].op \in BodyOps /\ log[c].res = "cancel") =>
            /\ \A i \in LogIdx : Established(i) => RemovalCalledAfter(i, c)
            /\ shutdown_on_exit =>
                   /\ log[Len(log)].op = "kill"
                   /\ \A j \in LogIdx : log[j].op \in RemoveOps => j < Len(log)

\* C5: diagnostic fallback: when the polling loop ends without a PID, run_app
\* calls adb.logcat_tail with the timestamp adb.datetime returned before
\* adb.start_app was issued, and only after that fails the run with
\* "Problem starting app"; adb.logcat is never opened and no log is streamed
\* on this path.
C5_DiagnosticFallback ==
    /\ pc = "logcat_tail" => pid = NoPid
    /\ pc \in {"logcat", "stream"} => pid # NoPid
    /\ \A i \in LogIdx : log[i].op = "logcat_tail" =>
          /\ \E j, k \in LogIdx :
                /\ j < k
                /\ k < i
                /\ log[j].op = "datetime"
                /\ log[j].res = "ok"
                /\ log[j].arg = log[i].arg
                /\ log[k].op = "start_app"
          /\ ~Called("logcat")
          /\ ~Called("stream_app_logs")
          /\ pc = "done" => exc # "none"
    /\ exc = "problem" =>
          \E i \in LogIdx : log[i].op = "logcat_tail" /\ log[i].res = "ok"

\* The fallback ran with the later of the two device timestamps and the run
\* failed with "Problem starting app".
C5_Witness ==
    /\ pc = "done"
    /\ exc = "problem"
    /\ \E i \in LogIdx : log[i].op = "logcat_tail" /\ log[i].arg = 2

InLoop == pc \in {"loop_test", "pidof"}

\* The polls recorded in the history.
PidofIdx == {i \in LogIdx : log[i].op = "pidof"}

\* C6, as stated: the loop makes at least one adb.pidof poll, stops at the
\* first poll that returns a PID and returns that PID, gives up without a PID
\* only once the clock has reached the single deadline fixed at launch, and
\* always terminates when the clock advances.
C6_AtLeastOnePoll ==
    /\ [](pc \in {"logcat", "logcat_tail"} => PidofIdx # {})
    /\ [](pc = "pidof" => pid = NoPid)
    /\ [][(pc = "loop_test" /\ pc' = "logcat_tail") => clock >= fail_time]_vars
    /\ (InLoop ~> ~InLoop)

\* C6, amended: the loop polls whenever its test finds no PID and the clock
\* before the deadline, and only then (so it polls at least once unless the
\* clock has already reached the deadline at the first test); it does not poll
\* again once a poll returned a PID, and that PID is the one run_app goes on
\* with; it gives up without a PID only when the clock has reached the
\* deadline, which is the launch time plus PidTimeout and is not moved by a
\* poll; and when the clock advances the loop terminates.
C6_PidPolling ==
    /\ [][(pc = "loop_test" /\ pc' # "loop_test") =>
            (pc' = "pidof" <=> (pid = NoPid /\ clock < fail_time))]_vars
    /\ [](pc = "pidof" => pid = NoPid)
    /\ [](pc \in {"logcat", "stream"} =>
            /\ pid \in Pids
            /\ \E i \in PidofIdx :
                  /\ log[i].arg = pid
                  /\ \A j \in PidofIdx : j # i => log[j].arg = NoPid /\ j < i)
    /\ [][(pc = "loop_test" /\ pc' = "logcat_tail") =>
            (pid = NoPid /\ clock >= fail_time)]_vars
    /\ [][(pc = "set_deadline" /\ pc' = "loop_test") =>
            fail_time' = clock + PidTimeout]_vars
    /\ [][(InLoop /\ InLoop') => fail_time' = fail_time]_vars
    /\ (InLoop ~> ~InLoop)

\* The loop polled without success, saw the deadline pass, and gave up.
C6_Witness ==
    /\ pc = "logcat_tail"
    /\ pid = NoPid
    /\ \E i \in PidofIdx : log[i].arg = NoPid /\ log[i].res = "ok"

\* The device actions of a launch, in the order run_app issues them.
StreamingRun == <<"force_stop_app", "install_apk", "datetime", "start_app",
                  "logcat", "stream_app_logs">>
DiagnosingRun == <<"force_stop_app", "install_apk", "datetime", "start_app",
                   "logcat_tail">>
LaunchOps == {StreamingRun[i] : i \in 1..Len(StreamingRun)} \cup {"logcat_tail"}

IsLaunchEntry(e) == e.op \in LaunchOps
IsStepEntry(e) == e.op \in LaunchOps \cup {"pidof"}

\* The history restricted to the launch steps, without and with the polls.
LaunchLog == SelectSeq(log, IsLaunchEntry)
StepLog == SelectSeq(log, IsStepEntry)

IsPrefix(s, t) == Len(s) <= Len(t) /\ \A i \in 1..Len(s) : s[i] = t[i]

OpsOf(l) == [i \in 1..Len(l) |-> l[i].op]

\* C10: the device actions of one run_app call form a prefix of force_stop_app,
\* install_apk, datetime, start_app, PID polling, then either logcat and the
\* log stream or logcat_tail; no step runs twice or out of order, the polls
\* all sit between start_app and the step that follows the loop, and a step
\* that fails is the last one, so that no log stream is opened after it.
C10_LaunchSequence ==
    LET launched == OpsOf(LaunchLog)
        steps == StepLog
    IN /\ \/ IsPrefix(launched, StreamingRun)
          \/ IsPrefix(launched, DiagnosingRun)
       /\ \A i \in 1..Len(steps) :
             /\ steps[i].op = "pidof" =>
                   /\ i > 1
                   /\ steps[i - 1].op \in {"start_app", "pidof"}
             /\ steps[i].res # "ok" => i = Len(steps)
             /\ (steps[i].op \in {"logcat", "logcat_tail"} /\ i > 1) =>
                   steps[i - 1].op \in {"start_app", "pidof"}

\* A complete streaming run: every step once, a poll that found the PID, and
\* the stream ended by the app's exit.
C10_Witness ==
    /\ pc = "done"
    /\ exc = "none"
    /\ OpsOf(StepLog) = <<"force_stop_app", "install_apk", "datetime", "start_app",
                          "pidof", "logcat", "stream_app_logs">>

\* ------------------------------------------------------ device selection
\* select_target_device returned.
Selected ==
    \E i \in LogIdx : log[i].op = "select_target_device" /\ log[i].res = "ok"

\* What select_target_device returned, read from the locals: only the
\* selection assigns RunningDevice to `device` and ExistingAvd to `avd`, and
\* nothing assigns `device` again when it did.
ReturnedDevice == Selected /\ device = RunningDevice
ReturnedAvd == Selected /\ avd = ExistingAvd

EmulatorOps == {"create_emulator", "verify_avd", "start_emulator"}

\* force-stop, install and launch.
DeviceCommands == {"force_stop_app", "install_apk", "start_app"}

\* The calls of op recorded in the history.
CallsOf(op) == {i \in LogIdx : log[i].op = op}

\* C11: device selection branching.  When select_target_device returns a
\* device id, create_emulator, verify_avd and start_emulator are never called.
\* When it returns neither a device id nor an AVD name, create_emulator is
\* called, verify_avd is not, and start_emulator boots the AVD that
\* create_emulator returned.  When it returns an AVD name without a device id,
\* create_emulator is not called, verify_avd is called for that AVD, and
\* start_emulator boots that AVD only after verify_avd returned.
\* start_emulator is called at most once, and force_stop_app, install_apk and
\* start_app are only issued after the ADB wrapper was bound to a concrete
\* device id.
C11_DeviceSelectionBranching ==
    LET starts == CallsOf("start_emulator")
        creates == CallsOf("create_emulator")
        verifies == CallsOf("verify_avd")
    IN /\ ~Selected => \A i \in LogIdx : log[i].op \notin EmulatorOps
       /\ ReturnedDevice => \A i \in LogIdx : log[i].op \notin EmulatorOps
       /\ (Selected /\ ~ReturnedDevice /\ ~ReturnedAvd) =>
             /\ verifies = {}
             /\ pc # "create_emulator" => Cardinality(creates) = 1
             /\ \A i \in starts :
                   /\ log[i].name = CreatedAvd
                   /\ \E j \in creates : j < i /\ log[j].res = "ok"
       /\ (Selected /\ ~ReturnedDevice /\ ReturnedAvd) =>
             /\ creates = {}
             /\ pc # "verify_avd" => Cardinality(verifies) = 1
             /\ \A j \in verifies : log[j].name = ExistingAvd
             /\ \A i \in starts :
                   /\ log[i].name = ExistingAvd
                   /\ \E j \in verifies : j < i /\ log[j].res = "ok"
       /\ Cardinality(starts) <= 1
       /\ \A i \in LogIdx : log[i].op \in DeviceCommands =>
             /\ device # NoDevice
             /\ \E j \in CallsOf("adb") :
                   /\ j < i
                   /\ log[j].res = "ok"
                   /\ log[j].name = device
                   /\ log[j].name # NoDevice

\* A named virtual device that was not running was verified, then booted, and
\* the app was launched on the device id the boot returned.
C11_Witness ==
    /\ ReturnedAvd
    /\ device = BootedDevice
    /\ \E j \in CallsOf("verify_avd"), i \in CallsOf("start_emulator") :
          j < i /\ log[i].res = "ok"
    /\ \E i \in CallsOf("start_app") : log[i].res = "ok"

\* ------------------------------------------------------------ port relays
PortOps == {"forward", "reverse"} \cup RemoveOps

IsPortEntry(e) == e.op \in PortOps

\* The port calls of the history, each as <<operation, port>>.
PortCalls ==
    LET s == SelectSeq(log, IsPortEntry)
    IN [i \in 1..Len(s) |-> <<s[i].op, s[i].arg>>]

\* One call of op per entry of ports, in list order.
CallsFor(op, ports) == [i \in 1..Len(ports) |-> <<op, ports[i]>>]

SetUpCalls ==
    CallsFor("forward", forward_ports) \o CallsFor("reverse", reverse_ports)

RemovalCalls ==
    CallsFor("forward_remove", forward_ports)
        \o CallsFor("reverse_remove", reverse_ports)

\* The mappings the caller asked for.
Requested ==
    {<<"forward", forward_ports[i]>> : i \in 1..Len(forward_ports)}
        \cup {<<"reverse", reverse_ports[i]>> : i \in 1..Len(reverse_ports)}

\* No call has raised so far and run_app is propagating nothing.  (A log
\* stream the user interrupts returns normally.)
NoStepFailed == exc = "none" /\ \A i \in LogIdx : log[i].res # "error"

\* The positions inside the `with self.forward_ports(...)` body.
WithBody == {"datetime", "start_app", "set_deadline", "loop_test", "pidof",
             "logcat", "stream", "logcat_tail"}

NoDuplicates(ports) ==
    \A i, j \in 1..Len(ports) : ports[i] = ports[j] => i = j

\* C12: on a run where no step fails, adb.forward(p, p) is called once per
\* entry of forward_ports in list order, then adb.reverse(p, p) once per entry
\* of reverse_ports in list order, and nothing else touches the mappings
\* before the log stream is opened; through the whole `with` body, the
\* streaming phase included, the active mappings are exactly the requested
\* ones; after the stream ended adb.forward_remove(p) is called once per entry
\* of forward_ports and adb.reverse_remove(p) once per entry of reverse_ports,
\* in list order, and no mapping is left.  When no port is listed twice, each
\* requested mapping is thus established exactly once and removed exactly once.
C12_PortRelaysOnCleanRun ==
    NoStepFailed =>
        LET calls == PortCalls
        IN /\ IsPrefix(calls, SetUpCalls \o RemovalCalls)
           /\ pc \in WithBody =>
                 /\ calls = SetUpCalls
                 /\ active = Requested
           /\ \A i, j \in LogIdx :
                 (log[i].op \in {"forward", "reverse"} /\ log[j].op = "logcat")
                    => i < j
           /\ \A i, j \in LogIdx :
                 (log[i].op \in RemoveOps /\ log[j].op = "stream_app_logs")
                    => j < i
           /\ pc = "done" =>
                 /\ Called("stream_app_logs")
                 /\ calls = SetUpCalls \o RemovalCalls
                 /\ active = {}
                 /\ (NoDuplicates(forward_ports) /\ NoDuplicates(reverse_ports)) =>
                       \A m \in Requested :
                          /\ Cardinality({i \in LogIdx :
                                log[i].op = m[1] /\ log[i].arg = m[2]}) = 1
                          /\ Cardinality({i \in LogIdx :
                                /\ log[i].op = RemoveOpOf(m[1])
                                /\ log[i].arg = m[2]}) = 1

\* A clean run with forward 8080 and reverse 9000: each established once
\* before the stream and removed once after it.
C12_Witness ==
    /\ pc = "done"
    /\ NoStepFailed
    /\ forward_ports = <<8080>>
    /\ reverse_ports = <<9000>>
    /\ PortCalls = <<<<"forward", 8080>>, <<"reverse", 9000>>,
                     <<"forward_remove", 8080>>, <<"reverse_remove", 9000>>>>
    /\ active = {}

\* ------------------------------------------------------- the log classifier
\* Strings are sequences of code points.
ESC == 27
LF == 10
Slash == 47
Colon == 58
Space == 32
LeftBracket == 91
CSI == 155

\* A level of either case.
IsLevelAnyCase(c) == c \in (65..90) \cup (97..122)

\* [A-Z]
IsLevel(c) == c \in 65..90

\* ANSI_ESC_SEQ_RE_DEF (briefcase.console), one ANSI control sequence:
\*   \x1B[@-Z\\-_] | [\x80-\x9A\x9C-\x9F] | (?:\x1B\[|\x9B)[0-?]*[ -/]*[@-~]
EscFinal == (64..90) \cup (92..95)
C1Control == (128..154) \cup (156..159)
CsiParam == 48..63
CsiIntermediate == 32..47
CsiFinal == 64..126

\* The end of the longest run of characters of class S that starts at i.
RECURSIVE RunEnd(_, _, _)
RunEnd(s, i, S) == IF i <= Len(s) /\ s[i] \in S THEN RunEnd(s, i + 1, S) ELSE i

\* The position after the ANSI sequence that starts at s[i], or 0 when none
\* does.  The three alternatives start differently and the three classes of
\* a CSI sequence are disjoint, so at most one way of matching exists and the
\* greedy repetitions take all they can.
AnsiEnd(s, i) ==
    IF i > Len(s) THEN 0
    ELSE IF s[i] = ESC /\ i + 1 <= Len(s) /\ s[i + 1] \in EscFinal THEN i + 2
    ELSE IF s[i] \in C1Control THEN i + 1
    ELSE IF \/ s[i] = ESC /\ i + 1 <= Len(s) /\ s[i + 1] = LeftBracket
            \/ s[i] = CSI
    THEN LET a == IF s[i] = CSI THEN i + 1 ELSE i + 2
             c == RunEnd(s, RunEnd(s, a, CsiParam), CsiIntermediate)
         IN IF c <= Len(s) /\ s[c] \in CsiFinal THEN c + 1 ELSE 0
    ELSE 0

\* `.` matches any character but a line feed.
AllDot(s, a, b) == \A k \in a..b : s[k] # LF

Min(S) == CHOOSE x \in S : \A y \in S : x <= y

\* A content that runs to the end of the line, escape characters included.
ContentToEndOfLine(s, c) ==
    IF AllDot(s, c, Len(s)) THEN Len(s) + 1 ELSE 0

\* (?P<content>.*?(?=\x1B|$)) started at c: the position after the content,
\* the first one that an escape character or the end of the string follows
\* (`$` also matches before a final line feed); 0 when there is none.
ContentEnd(s, c) ==
    LET ends == {e \in c..(Len(s) + 1) :
                    /\ AllDot(s, c, e - 1)
                    /\ \/ e = Len(s) + 1
                       \/ s[e] = ESC
                       \/ e = Len(s) /\ s[e] = LF}
    IN IF ends = {} THEN 0 ELSE Min(ends)

\* The positions where (?P<tag>.*?) started at g may end: those followed by
\* ": " and by a content.
TagEnds(s, g) ==
    {t \in g..(Len(s) - 1) :
        /\ AllDot(s, g, t - 1)
        /\ s[t] = Colon
        /\ s[t + 1] = Space
        /\ ContentEnd(s, t + 2) # 0}

\* The lazy tag ends at the first of them; 0 when there is none.
TagEnd(s, g) ==
    LET ends == TagEnds(s, g)
    IN IF ends = {} THEN 0 ELSE Min(ends)

NoMatch == [ok |-> FALSE, tag |-> <<>>, content |-> <<>>]

\* [A-Z]/(?P<tag>.*?): (?P<content>...)(?:ANSI)* matched at s[i]; the
\* trailing ANSI sequences are optional and capture nothing.
MatchBody(s, i) ==
    IF i + 1 <= Len(s) /\ IsLevel(s[i]) /\ s[i + 1] = Slash
    THEN LET t == TagEnd(s, i + 2)
         IN IF t = 0 THEN NoMatch
            ELSE [ok |-> TRUE,
                  tag |-> SubSeq(s, i + 2, t - 1),
                  content |-> SubSeq(s, t + 2, ContentEnd(s, t + 2) - 1)]
    ELSE NoMatch

\* (?:ANSI)* matched at s[i], greedily: one more ANSI sequence first, and the
\* rest of the pattern right here when that leads to no match.
RECURSIVE MatchPrefix(_, _)
MatchPrefix(s, i) ==
    LET j == AnsiEnd(s, i)
        longer == IF j = 0 THEN NoMatch ELSE MatchPrefix(s, j)
    IN IF longer.ok THEN longer ELSE MatchBody(s, i)

\* The pattern searched for anywhere in the line.
RECURSIVE SearchFrom(_, _)
SearchFrom(s, i) ==
    IF i > Len(s) + 1 THEN NoMatch
    ELSE IF MatchPrefix(s, i).ok THEN MatchPrefix(s, i)
    ELSE SearchFrom(s, i + 1)

ANDROID_LOG_PREFIX_SEARCH(s) == SearchFrom(s, 1)

\* ANDROID_LOG_PREFIX_REGEX.match(line): anchored at the start of the line.
ANDROID_LOG_PREFIX_REGEX(s) == MatchPrefix(s, 1)

PythonStdout == <<112, 121, 116, 104, 111, 110, 46, 115, 116, 100, 111, 117, 116>>
PythonStderr == <<112, 121, 116, 104, 111, 110, 46, 115, 116, 100, 101, 114, 114>>

\* groups["tag"] in {"python.stdout", "python.stderr"}
IsPythonTag(tag) == tag \in {PythonStdout, PythonStderr}

android_log_clean_filter(s) ==
    LET match == ANDROID_LOG_PREFIX_REGEX(s)
    IN IF match.ok
       THEN [content |-> match.content, include |-> IsPythonTag(match.tag)]
       ELSE [content |-> s, include |-> FALSE]

\* The lines classified: every string over Alphabet up to MaxLineLen, every
\* shorter one behind each of three log prefixes, and the lines of the
\* documented scenarios.  A line handed to the filter holds no line feed.
\* Alphabet holds ESC, "[", "m", "I", "/", ":" and " ".
Alphabet == {ESC, LeftBracket, 109, 73, Slash, Colon, Space}

\* "I/python.stdout: ", "W/ActivityManager: ", "\x1b[32mI/python.stderr: "
Heads == {
    <<73, 47, 112, 121, 116, 104, 111, 110, 46, 115, 116, 100, 111, 117, 116, 58, 32>>,
    <<87, 47, 65, 99, 116, 105, 118, 105, 116, 121, 77, 97, 110, 97, 103, 101, 114, 58, 32>>,
    <<27, 91, 51, 50, 109, 73, 47, 112, 121, 116, 104, 111, 110, 46, 115, 116, 100, 101,
      114, 114, 58, 32>>}

\* "I/python.stdout: Hello world"
ScenarioA == <<73, 47, 112, 121, 116, 104, 111, 110, 46, 115, 116, 100, 111, 117, 116,
               58, 32, 72, 101, 108, 108, 111, 32, 119, 111, 114, 108, 100>>
\* "W/ActivityManager: Some warning"
ScenarioB == <<87, 47, 65, 99, 116, 105, 118, 105, 116, 121, 77, 97, 110, 97, 103, 101,
               114, 58, 32, 83, 111, 109, 101, 32, 119, 97, 114, 110, 105, 110, 103>>
\* "\x1b[32mI/python.stderr: oops\x1b[0m"
ScenarioC == <<27, 91, 51, 50, 109, 73, 47, 112, 121, 116, 104, 111, 110, 46, 115, 116,
               100, 101, 114, 114, 58, 32, 111, 111, 112, 115, 27, 91, 48, 109>>
HelloWorld == <<72, 101, 108, 108, 111, 32, 119, 111, 114, 108, 100>>
SomeWarning == <<83, 111, 109, 101, 32, 119, 97, 114, 110, 105, 110, 103>>
Oops == <<111, 111, 112, 115>>

\* The strings over Alphabet of length up to n (as functions on 1..k).
Tails(n) == UNION {[1..k -> Alphabet] : k \in 0..n}

IsInputLine(l) ==
    \/ \E t \in Tails(MaxLineLen) : l = <<>> \o t
    \/ \E h \in Heads, t \in Tails(MaxLineLen - 1) : l = h \o t
    \/ l \in {ScenarioA, ScenarioB, ScenarioC}

\* No run is in progress while lines are classified.
RunIdle ==
    /\ pc = "idle"
    /\ shutdown_on_exit = FALSE
    /\ forward_ports = <<>>
    /\ reverse_ports = <<>>
    /\ device = NoDevice
    /\ avd = NoAvd
    /\ adbBound = FALSE
    /\ idx = 0
    /\ device_start_time = 0
    /\ pid = NoPid
    /\ fail_time = 0
    /\ clock = 0
    /\ exc = "none"
    /\ active = {}
    /\ log = <<>>

FilterInit ==
    /\ RunIdle
    /\ IsInputLine(line)
    /\ stage = "input"
    /\ content = <<>>
    /\ include = FALSE
    /\ content2 = <<>>
    /\ include2 = FALSE

\* content, include = android_log_clean_filter(line)
Classify ==
    /\ stage = "input"
    /\ LET returned == android_log_clean_filter(line)
       IN /\ content' = returned.content
          /\ include' = returned.include
    /\ stage' = "classified"
    /\ UNCHANGED <<line, content2, include2>>
    /\ UNCHANGED runVars

\* The filter applied again, to the content it returned.
Reclassify ==
    /\ stage = "classified"
    /\ LET returned == android_log_clean_filter(content)
       IN /\ content2' = returned.content
          /\ include2' = returned.include
    /\ stage' = "reclassified"
    /\ UNCHANGED <<line, content, include>>
    /\ UNCHANGED runVars

FilterNext == Classify \/ Reclassify

FilterSpec == FilterInit /\ [][FilterNext]_vars

\* ---------------------------------------------------- claims on the filter
\* s[a..b-1] is one ANSI control sequence.
IsAnsiSeq(s, a, b) ==
    \/ b = a + 2 /\ s[a] = ESC /\ s[a + 1] \in EscFinal
    \/ b = a + 1 /\ s[a] \in C1Control
    \/ \E n \in {1, 2}, q \in a..(b - 1) :
          /\ IF n = 1 THEN s[a] = CSI ELSE s[a] = ESC /\ s[a + 1] = LeftBracket
          /\ a + n <= q
          /\ \A k \in (a + n)..(q - 1) : s[k] \in CsiParam
          /\ \A k \in q..(b - 2) : s[k] \in CsiIntermediate
          /\ s[b - 1] \in CsiFinal

\* s[a..b-1] is a sequence of zero or more ANSI control sequences.
RECURSIVE IsAnsiRun(_, _, _)
IsAnsiRun(s, a, b) ==
    \/ a = b
    \/ \E m \in (a + 1)..b : IsAnsiSeq(s, a, m) /\ IsAnsiRun(s, m, b)

\* The position of s that holds the level of a log prefix, where
\* [ANSI]*<uppercase letter>/ ends; 0 when s starts with no such prefix.  (An
\* ANSI sequence starts with no uppercase letter: there is at most one.)
LevelPosition(s) ==
    LET found == {k \in 1..(Len(s) - 1) :
                     /\ s[k] \in 65..90
                     /\ s[k + 1] = Slash
                     /\ IsAnsiRun(s, 1, k)}
    IN IF found = {} THEN 0 ELSE Min(found)

\* The position of the first ": " separator of s at or after g; 0 when none.
FirstSeparator(s, g) ==
    LET found == {t \in g..(Len(s) - 1) : s[t] = Colon /\ s[t + 1] = Space}
    IN IF found = {} THEN 0 ELSE Min(found)

\* s has the form [ANSI]*<uppercase letter>/<TAG>: <CONTENT>...
HasLogForm(s) ==
    LET k == LevelPosition(s)
    IN k # 0 /\ FirstSeparator(s, k + 2) # 0

\* What the form says of a line that has it: the tag runs to the first ": ",
\* the content from there to the first escape character or the end of line.
FormTag(s) ==
    LET k == LevelPosition(s)
    IN SubSeq(s, k + 2, FirstSeparator(s, k + 2) - 1)

FormContent(s) ==
    LET k == LevelPosition(s)
        c == FirstSeparator(s, k + 2) + 2
        escapes == {e \in c..Len(s) : s[e] = ESC}
    IN SubSeq(s, c, IF escapes = {} THEN Len(s) ELSE Min(escapes) - 1)

\* C7: for every line of the form [ANSI]*<uppercase letter>/<TAG>: <CONTENT>
\* [ANSI]*, the filter returns the text between the first ": " and the first
\* escape character after it (or the end of the line), possibly empty, and
\* include is true exactly when TAG is python.stdout or python.stderr.
C7_MatchingLine ==
    (stage = "classified" /\ HasLogForm(line)) =>
        /\ content = FormContent(line)
        /\ include = (FormTag(line) \in {PythonStdout, PythonStderr})
        /\ line = ScenarioA => content = HelloWorld /\ include
        /\ line = ScenarioB => content = SomeWarning /\ ~include
        /\ line = ScenarioC => content = Oops /\ include

\* The colour-wrapped python.stderr line was classified.
C7_Witness ==
    /\ stage = "classified"
    /\ line = ScenarioC
    /\ content = Oops
    /\ include

\* C8: every line without the level/tag/content form is returned unchanged
\* with include false, and the filter returns for every line.
C8_NonMatchingLine ==
    /\ stage = "input" =>
          LET returned == android_log_clean_filter(line)
          IN returned.include \in BOOLEAN /\ Len(returned.content) <= Len(line)
    /\ (stage = "classified" /\ ~HasLogForm(line)) =>
          /\ content = line
          /\ ~include

\* A line with a separator but no level was classified: ": m/I".
C8_Witness ==
    /\ stage = "classified"
    /\ line = <<Colon, Space, 109, Slash, 73>>
    /\ content = line
    /\ ~include

\* C9, as stated: whenever the filter returns include false, the filter
\* applied to the returned content returns that content and include false.
C9_FixedPoint ==
    (stage = "reclassified" /\ ~include) => (content2 = content /\ ~include2)

\* C9, amended: whenever the filter returns include false and a content that
\* does not itself start with a log prefix, the filter applied to that
\* content returns it unchanged with include false.
C9_FixedPointWithoutPrefix ==
    (stage = "reclassified" /\ ~include /\ ~HasLogForm(content)) =>
        (content2 = content /\ ~include2)

\* A system line was stripped of its prefix and the content, which starts
\* with no prefix, was classified again: "W/ActivityManager: Some warning".
C9_Witness ==
    /\ stage = "reclassified"
    /\ line = ScenarioB
    /\ ~include
    /\ content = SomeWarning
    /\ content2 = SomeWarning

====
